---- MODULE Spec2Model ----
(***************************************************************************)
(* Model of mbutil.go: the Web-Mercator tile enumerator (NewProjection,    *)
(* project_pixels, TileList, Round) and the fetch/store pipeline of main   *)
(* (20 tileFetcher goroutines, one mbTileWorker, three buffered channels). *)
(*                                                                         *)
(* Coordinates are exact fixed-point numbers.  A longitude is held as the  *)
(* integer x with  x * Bc[zoom] = x / Den(zoom)  pixels, i.e. in units of  *)
(* half a pixel at MAX_ZOOM_LEVEL.  A latitude is held as its Mercator     *)
(* ordinate 0.5*Log((1+f)/(1-f))*Cc[MAX_ZOOM_LEVEL] in the same unit       *)
(* (positive towards north); math.Sin and math.Log are strictly monotone,  *)
(* so the clamp of the sine in project_pixels is the clamp of that         *)
(* ordinate at the ordinate of 0.9999.                                     *)
(***************************************************************************)
EXTENDS Integers, Sequences, FiniteSets

VARIABLES
  xmin, ymin, xmax, ymax, zoomlevel,  \* flag values of main
  proj,                               \* the Projection built by NewProjection
  tilelist,                           \* TileList's local slice
  li,                                 \* TileList's position in proj.levels
  tiles,                              \* main's tiles
  mpc,                                \* where main is
  db,                                 \* the database file at filename
  inputPipe, tilePipe, outputPipe,    \* the three channels of main
  inject,                             \* position of main's loop over tiles
  acks,                               \* main's i : acknowledgments received
  fpc, ftile,                         \* each tileFetcher: position, tile, tileObj
  wpc, wtile,                         \* the mbTileWorker: position, tile
  fetched,                            \* TileIds whose fetchTile call has returned
  fatal,                              \* "none", or the log.Fatal that ended the process
  value, rounded                      \* Round's argument, and <<its result>>

roundVars == <<value, rounded>>
enumVars == <<xmin, ymin, xmax, ymax, zoomlevel, proj, tilelist, li, roundVars>>
chanVars == <<inputPipe, tilePipe, outputPipe>>
fetcherVars == <<fpc, ftile, fetched>>
writerVars == <<wpc, wtile>>
pipeVars == <<db, chanVars, inject, acks, fetcherVars, writerVars, fatal>>
vars == <<enumVars, tiles, mpc, pipeVars>>

\* ---------------------------------------------------------------- constants
DEFAULT_TILE_SIZE == 256
MAX_ZOOM_LEVEL == 19

\* ordinate of the sine 0.9999 : atanh(0.9999) / (2*Pi) * 2 * 256 * 2^19
SIN_CLAMP == 211551438

\* for w := 0; w < 20; w++ { go tileFetcher(...) }
NumFetchers == 20
Fetchers == 1..NumFetchers

\* for w := 0; w < 1; w++ { go mbTileWorker(...) }
NumWritersTwo == 1 + 1
NumWriters == 1
Writers == 1..NumWriters

\* ------------------------------------------------------------------- bounds
\* requested zoom levels run from MAX_ZOOM_LEVEL - ZoomDepth to MAX_ZOOM_LEVEL + 1
ZoomDepth == 2
\* box corners lie within MaxOff tiles (at MAX_ZOOM_LEVEL) of an anchor point
MaxOff == 1
\* main is run on tile lists of at most MaxTiles tiles
MaxTiles == 2

\* ------------------------------------------------------------ fixed point
\* proj.Ac[zoom] : width of the world in pixels
Ac(zoom) == DEFAULT_TILE_SIZE * 2^zoom
\* proj.Zc[zoom] : pixel origin, e = c / 2.0
Zc(zoom) == Ac(zoom) \div 2
\* denominator of x * proj.Bc[zoom] and of f * proj.Cc[zoom]
Den(zoom) == 2 * 2^(MAX_ZOOM_LEVEL - zoom)

Floor(n, d) == n \div d
Ceil(n, d) == -((-n) \div d)

\* Round(value) for value = n / d, d > 0, where value - 0.5 and value + 0.5
\* are exact, as they are for the pixel sums of project_pixels
Round(n, d) ==
  IF n < 0 THEN Ceil(2 * n - d, 2 * d) ELSE Floor(2 * n + d, 2 * d)

\* ------------------------------------------------- Round on float64 values
\* A float64 is m * 2^e with |m| < 2^53; value - 0.5 and value + 0.5 are
\* float64 operations and round their exact result to the nearest such
\* number, a tie to the one of even m.  The same format with MantBits bits
\* of m: a number is held as the integer k of  k / One.
MantBits == 4
FracBits == MantBits + 1
One == 2^FracBits
Half == One \div 2

Abs(n) == IF n < 0 THEN -n ELSE n

RECURSIVE BitLen(_)
BitLen(n) == IF n = 0 THEN 0 ELSE 1 + BitLen(n \div 2)

\* the spacing of the format's numbers at magnitude n
Ulp(n) == IF BitLen(n) <= MantBits THEN 1 ELSE 2^(BitLen(n) - MantBits)

Representable(k) == Abs(k) % Ulp(Abs(k)) = 0

\* the format's number nearest to the exact result k, ties to even
Nearest(k) ==
  LET n == Abs(k)
      u == Ulp(n)
      lo == (n \div u) * u
      up == IF 2 * (n - lo) < u THEN lo
            ELSE IF 2 * (n - lo) > u THEN lo + u
            ELSE IF (lo \div u) % 2 = 0 THEN lo ELSE lo + u
  IN  IF k < 0 THEN -up ELSE up

\* the numbers of the format from -2^MantBits to 2^MantBits
Floats == { k \in -(One * 2^MantBits)..(One * 2^MantBits) : Representable(k) }

\* Round(value) as float64 arithmetic computes it; the result is integral
\* and given as an integer
RoundFloat(k) ==
  IF k < 0 THEN Ceil(Nearest(k - Half), One) ELSE Floor(Nearest(k + Half), One)

Max(a, b) == IF a > b THEN a ELSE b
Min(a, b) == IF a < b THEN a ELSE b
minMax(a, b, c) == Min(Max(a, b), c)

\* Go's int(v / DEFAULT_TILE_SIZE) for an integral v: truncation towards zero
TileIndex(v) ==
  IF v < 0 THEN -((-v) \div DEFAULT_TILE_SIZE) ELSE v \div DEFAULT_TILE_SIZE

\* project_pixels(x, y, zoom) = <<e, g>>
project_pixels(x, y, zoom) ==
  LET d == Zc(zoom)
      e == Round(d * Den(zoom) + x, Den(zoom))
      f == minMax(y, -SIN_CLAMP, SIN_CLAMP)
      g == Round(d * Den(zoom) - f, Den(zoom))
  IN  <<e, g>>

Tile(z, x, y) == [z |-> z, x |-> x, y |-> y, Content |-> "nil"]

\* the clip test of the two loops: the index is skipped
SkipStrict(i, zoom) == i < 0 \/ i >= 2^zoom
Skip(i, zoom) == i < 0 \/ i > 2^zoom

\* the indices start..end that survive the clip, ascending
KeptClamped(start, end, zoom) ==
  [k \in 1..(end - start + 1) |-> minMax(start + k - 1, 0, 2^zoom)]
Kept(start, end, zoom) ==
  SelectSeq([k \in 1..(end - start + 1) |-> start + k - 1],
            LAMBDA i : ~Skip(i, zoom))

\* one iteration of TileList's loop over proj.levels: the tiles appended
LevelTilesRowMajor(p, zoom) ==
  LET px0 == project_pixels(p.xmin, p.ymax, zoom)
      px1 == project_pixels(p.xmax, p.ymin, zoom)
      xs == Kept(TileIndex(px0[1]), TileIndex(px1[1]), zoom)
      ys == Kept(TileIndex(px0[2]), TileIndex(px1[2]), zoom)
  IN  [k \in 1..(Len(xs) * Len(ys)) |->
         Tile(zoom, xs[((k - 1) % Len(xs)) + 1], ys[((k - 1) \div Len(xs)) + 1])]
LevelTiles(p, zoom) ==
  LET px0 == project_pixels(p.xmin, p.ymax, zoom)
      px1 == project_pixels(p.xmax, p.ymin, zoom)
      xs == Kept(TileIndex(px0[1]), TileIndex(px1[1]), zoom)
      ys == Kept(TileIndex(px0[2]), TileIndex(px1[2]), zoom)
  IN  [k \in 1..(Len(xs) * Len(ys)) |->
         Tile(zoom, xs[((k - 1) \div Len(ys)) + 1], ys[((k - 1) % Len(ys)) + 1])]

\* proj.levels as NewProjection fills it
LevelsTwice(z) ==
  [k \in 1..(2 * Max(0, MAX_ZOOM_LEVEL - z + 1)) |-> z + ((k - 1) \div 2)]
LevelsExclusive(z) ==
  [k \in 1..Max(0, MAX_ZOOM_LEVEL - z) |-> z + k - 1]
Levels(z) ==
  [k \in 1..Max(0, MAX_ZOOM_LEVEL - z + 1) |-> z + k - 1]

\* ----------------------------------------------------------------- inputs
World == 2 * Ac(MAX_ZOOM_LEVEL)
TileUnit == 2 * DEFAULT_TILE_SIZE
Offsets == { k * TileUnit + r : k \in (-MaxOff)..MaxOff, r \in {-1, 0, 1} }
\* longitude -180, 0 and 180
XAnchors == { -(World \div 2), 0, World \div 2 }
\* latitude 0, the top edge of the grid, and beyond the clamp
YAnchors == { 0, World \div 2, SIN_CLAMP + 2 * TileUnit }
Boxes(anchors) ==
  { <<a + lo, a + hi>> : a \in anchors, lo \in Offsets, hi \in Offsets }
\* latitudes: on a tile edge and half a pixel north of it
YOffsets == { k * TileUnit + r : k \in (-MaxOff)..MaxOff, r \in {0, 1} }
YBoxes ==
  { <<a + lo, a + hi>> : a \in YAnchors, lo \in YOffsets, hi \in YOffsets }
\* the flags are not validated: a box whose minimum exceeds its maximum
Inverted(anchors) == { <<a + TileUnit, a>> : a \in anchors }
ZoomLevels == (MAX_ZOOM_LEVEL - ZoomDepth)..(MAX_ZOOM_LEVEL + 1)

\* TileList() as one value: the contributions of proj.levels[i..]
RECURSIVE TileListFrom(_, _)
TileListFrom(p, i) ==
  IF i > Len(p.levels) THEN <<>>
  ELSE LevelTiles(p, p.levels[i]) \o TileListFrom(p, i + 1)

\* boxes of the runs of main: a point and a box over two columns, at longitude 0
RunBoxes == { <<0, 0>>, <<-TileUnit, 0>> }

\* ------------------------------------------------------------------ values
ZeroTile == [z |-> 0, x |-> 0, y |-> 0, Content |-> "nil"]
Key(t) == <<t.z, t.x, t.y>>
Keys(S) == { Key(t) : t \in S }
Range(q) == { q[i] : i \in 1..Len(q) }

NoFile == [exists |-> FALSE, schema |-> FALSE, rows |-> {}]
\* a database left at filename by an earlier run
OldFile == [exists |-> TRUE, schema |-> TRUE,
            rows |-> {[z |-> MAX_ZOOM_LEVEL, x |-> 2^(MAX_ZOOM_LEVEL - 1),
                       y |-> 2^(MAX_ZOOM_LEVEL - 1), Content |-> "png"]}]

\* the database a run of main over list that ended normally, every fetch
\* answered with the tile, leaves at filename
PreviousRun(list) ==
  [exists |-> TRUE, schema |-> TRUE,
   rows |-> { [t EXCEPT !.Content = "png"] : t \in Range(list) }]

\* make(chan Tile, len(tiles))
CapShort == Len(tiles) - 1
Cap == Len(tiles)

\* log.Fatal ends the process: no goroutine takes another step
RunningIgnoreFatal == mpc # "done"
Running == fatal = "none" /\ mpc # "done"

\* ------------------------------------------------------------------- Init
InitPipe ==
  /\ proj = [xmin |-> 0, ymin |-> 0, xmax |-> 0, ymax |-> 0, levels |-> <<>>]
  /\ tilelist = <<>>
  /\ li = 1
  /\ tiles = <<>>
  /\ mpc = "NewProjection"
  /\ inputPipe = <<>> /\ tilePipe = <<>> /\ outputPipe = <<>>
  /\ inject = 1
  /\ acks = 0
  /\ fpc = [f \in Fetchers |-> "unstarted"]
  /\ ftile = [f \in Fetchers |-> ZeroTile]
  /\ wpc = [w \in Writers |-> "unstarted"]
  /\ wtile = [w \in Writers |-> ZeroTile]
  /\ fetched = {}
  /\ fatal = "none"
  /\ value = 0 /\ rounded = <<>>

\* the enumerator on its own, over every box and zoom of the bounds
InitEnum ==
  /\ \E bx \in Boxes(XAnchors), by \in YBoxes :
       /\ bx[1] <= bx[2] \/ bx \in Inverted(XAnchors)
       /\ by[1] <= by[2] \/ by \in Inverted(YAnchors)
       /\ xmin = bx[1] /\ xmax = bx[2]
       /\ ymin = by[1] /\ ymax = by[2]
  /\ zoomlevel \in ZoomLevels
  /\ db = NoFile
  /\ InitPipe

\* main, over the boxes and zooms that give at most MaxTiles tiles
Init ==
  /\ \E bx \in RunBoxes :
       /\ xmin = bx[1] /\ xmax = bx[2]
       /\ ymin = 0 /\ ymax = 0
  /\ zoomlevel \in ZoomLevels
  /\ Len(TileListFrom([xmin |-> xmin, ymin |-> ymin, xmax |-> xmax,
                       ymax |-> ymax, levels |-> Levels(zoomlevel)], 1)) <= MaxTiles
  /\ db \in {NoFile, OldFile}
  /\ InitPipe

\* main run a second time: filename holds what the first run, with the same
\* flags, has left
InitTwice ==
  /\ \E bx \in RunBoxes :
       /\ xmin = bx[1] /\ xmax = bx[2]
       /\ ymin = 0 /\ ymax = 0
  /\ zoomlevel \in ZoomLevels
  /\ LET first == TileListFrom([xmin |-> xmin, ymin |-> ymin, xmax |-> xmax,
                                ymax |-> ymax, levels |-> Levels(zoomlevel)], 1)
     IN  Len(first) <= MaxTiles /\ db = PreviousRun(first)
  /\ InitPipe

\* Round on its own, over the numbers of the format
InitRound ==
  /\ xmin = 0 /\ xmax = 0 /\ ymin = 0 /\ ymax = 0
  /\ zoomlevel = MAX_ZOOM_LEVEL
  /\ db = NoFile
  /\ proj = [xmin |-> 0, ymin |-> 0, xmax |-> 0, ymax |-> 0, levels |-> <<>>]
  /\ tilelist = <<>>
  /\ li = 1
  /\ tiles = <<>>
  /\ mpc = "done"
  /\ inputPipe = <<>> /\ tilePipe = <<>> /\ outputPipe = <<>>
  /\ inject = 1
  /\ acks = 0
  /\ fpc = [f \in Fetchers |-> "unstarted"]
  /\ ftile = [f \in Fetchers |-> ZeroTile]
  /\ wpc = [w \in Writers |-> "unstarted"]
  /\ wtile = [w \in Writers |-> ZeroTile]
  /\ fetched = {}
  /\ fatal = "none"
  /\ value \in Floats
  /\ rounded = <<>>

\* a call Round(value)
RoundCall ==
  /\ rounded = <<>>
  /\ rounded' = <<RoundFloat(value)>>
  /\ UNCHANGED <<xmin, ymin, xmax, ymax, zoomlevel, proj, tilelist, li, value,
                 tiles, mpc, pipeVars>>

\* ------------------------------------------------------------- enumerator
NewProjection ==
  /\ Running
  /\ mpc = "NewProjection"
  /\ proj' = [xmin |-> xmin, ymin |-> ymin, xmax |-> xmax, ymax |-> ymax,
              levels |-> Levels(zoomlevel)]
  /\ tilelist' = <<>>
  /\ li' = 1
  /\ mpc' = "TileList"
  /\ UNCHANGED <<xmin, ymin, xmax, ymax, zoomlevel, tiles, pipeVars, roundVars>>

\* one iteration of  for _, zoom := range proj.levels
TileListLevel ==
  /\ Running
  /\ mpc = "TileList"
  /\ li <= Len(proj.levels)
  /\ tilelist' = tilelist \o LevelTiles(proj, proj.levels[li])
  /\ li' = li + 1
  /\ UNCHANGED <<xmin, ymin, xmax, ymax, zoomlevel, proj, tiles, mpc, pipeVars,
                 roundVars>>

\* return tilelist
TileListReturn ==
  /\ Running
  /\ mpc = "TileList"
  /\ li > Len(proj.levels)
  /\ tiles' = tilelist
  /\ mpc' = "prepareDatabase"
  /\ UNCHANGED <<enumVars, pipeVars>>

\* ------------------------------------------------------------------- main
\* os.Remove(filename); sql.Open; optimizeConnection
prepareDatabaseKeep ==
  /\ Running
  /\ mpc = "prepareDatabase"
  /\ db' = [db EXCEPT !.exists = TRUE]
  /\ mpc' = "setupMBTileTables"
  /\ UNCHANGED <<enumVars, tiles, chanVars, inject, acks, fetcherVars,
                 writerVars, fatal>>
prepareDatabase ==
  /\ Running
  /\ mpc = "prepareDatabase"
  /\ db' = [exists |-> TRUE, schema |-> FALSE, rows |-> {}]
  /\ mpc' = "setupMBTileTables"
  /\ UNCHANGED <<enumVars, tiles, chanVars, inject, acks, fetcherVars,
                 writerVars, fatal>>

\* sql.Open or a PRAGMA returns an error: log.Fatal(err)
prepareDatabaseError ==
  /\ Running
  /\ mpc = "prepareDatabase"
  /\ db' = [exists |-> TRUE, schema |-> FALSE, rows |-> {}]
  /\ fatal' = "prepareDatabase"
  /\ UNCHANGED <<enumVars, tiles, mpc, chanVars, inject, acks, fetcherVars,
                 writerVars>>

\* the two tables and the two unique indexes; create unique index fails on
\* an index that exists
setupMBTileTables ==
  /\ Running
  /\ mpc = "setupMBTileTables"
  /\ IF db.schema
       THEN fatal' = "index exists" /\ UNCHANGED <<db, mpc>>
       ELSE db' = [db EXCEPT !.schema = TRUE] /\ mpc' = "startWorkers"
                /\ UNCHANGED fatal
  /\ UNCHANGED <<enumVars, tiles, chanVars, inject, acks, fetcherVars,
                 writerVars>>

\* a statement of setupMBTileTables returns an error: log.Fatal(err)
setupMBTileTablesError ==
  /\ Running
  /\ mpc = "setupMBTileTables"
  /\ fatal' = "setupMBTileTables"
  /\ UNCHANGED <<enumVars, tiles, mpc, db, chanVars, inject, acks,
                 fetcherVars, writerVars>>

\* the three make(chan Tile, len(tiles)) and the two loops of go statements
StartWorkers ==
  /\ Running
  /\ mpc = "startWorkers"
  /\ inputPipe' = <<>> /\ tilePipe' = <<>> /\ outputPipe' = <<>>
  /\ fpc' = [f \in Fetchers |-> "recv"]
  /\ wpc' = [w \in Writers |-> "recv"]
  /\ inject' = 1
  /\ mpc' = "inject"
  /\ UNCHANGED <<enumVars, tiles, db, acks, ftile, fetched, wtile, fatal>>

\* inputPipe <- tile
Inject ==
  /\ Running
  /\ mpc = "inject"
  /\ inject <= Len(tiles)
  /\ Len(inputPipe) < Cap
  /\ inputPipe' = Append(inputPipe, tiles[inject])
  /\ inject' = inject + 1
  /\ UNCHANGED <<enumVars, tiles, mpc, db, tilePipe, outputPipe, acks,
                 fetcherVars, writerVars, fatal>>

\* the range loop over tiles ends; i := 0
InjectExit ==
  /\ Running
  /\ mpc = "inject"
  /\ inject > Len(tiles)
  /\ acks' = 0
  /\ mpc' = "wait"
  /\ UNCHANGED <<enumVars, tiles, db, chanVars, inject, fetcherVars,
                 writerVars, fatal>>

\* the condition of  for i := 0; i < len(tiles); i++
WaitLoopCondShort(i, n) == i < n - 1
WaitLoopCondLong(i, n) == i <= n
WaitLoopCond(i, n) == i < n

\* <-outputPipe
WaitAck ==
  /\ Running
  /\ mpc = "wait"
  /\ WaitLoopCond(acks, Len(tiles))
  /\ Len(outputPipe) > 0
  /\ outputPipe' = Tail(outputPipe)
  /\ acks' = acks + 1
  /\ UNCHANGED <<enumVars, tiles, mpc, db, inputPipe, tilePipe, inject,
                 fetcherVars, writerVars, fatal>>

WaitExit ==
  /\ Running
  /\ mpc = "wait"
  /\ ~WaitLoopCond(acks, Len(tiles))
  /\ mpc' = "optimizeDatabase"
  /\ UNCHANGED <<enumVars, tiles, pipeVars>>

\* ANALYZE; VACUUM; then main returns and the process ends
optimizeDatabase ==
  /\ Running
  /\ mpc = "optimizeDatabase"
  /\ mpc' = "done"
  /\ UNCHANGED <<enumVars, tiles, pipeVars>>

optimizeDatabaseError ==
  /\ Running
  /\ mpc = "optimizeDatabase"
  /\ fatal' = "optimizeDatabase"
  /\ UNCHANGED <<enumVars, tiles, mpc, db, chanVars, inject, acks,
                 fetcherVars, writerVars>>

\* ------------------------------------------------------------ tileFetcher
\* tile := <-inputPipe
FetcherRecv(f) ==
  /\ Running
  /\ fpc[f] = "recv"
  /\ Len(inputPipe) > 0
  /\ ftile' = [ftile EXCEPT ![f] = Head(inputPipe)]
  /\ inputPipe' = Tail(inputPipe)
  /\ fpc' = [fpc EXCEPT ![f] = "fetch"]
  /\ UNCHANGED <<enumVars, tiles, mpc, db, tilePipe, outputPipe, inject, acks,
                 fetched, writerVars, fatal>>

\* fetchTile returns a Tile; Content is what ioutil.ReadAll gave
FetchReturns(f, content) ==
  /\ Running
  /\ fpc[f] = "fetch"
  /\ ftile' = [ftile EXCEPT ![f] = [ftile[f] EXCEPT !.Content = content]]
  /\ fetched' = fetched \cup {Key(ftile[f])}
  /\ fpc' = [fpc EXCEPT ![f] = "send"]
  /\ UNCHANGED <<enumVars, tiles, mpc, db, chanVars, inject, acks,
                 writerVars, fatal>>

\* a 200 response, read to the end
fetchTile(f) == FetchReturns(f, "png")

\* http.Get returns err == nil and the body read is not the tile: a response
\* with another status (resp.StatusCode is never read), or ReadAll stopped on
\* an error (err is assigned and never read)
fetchTileNotATile(f) == FetchReturns(f, "other")

\* http.Get returns an error: log.Fatal("Error in fetching tile")
fetchTileFatal(f) ==
  /\ Running
  /\ fpc[f] = "fetch"
  /\ fatal' = "fetchTile"
  /\ UNCHANGED <<enumVars, tiles, mpc, db, chanVars, inject, acks,
                 fetcherVars, writerVars>>

\* tilePipe <- tileObj
FetcherSend(f) ==
  /\ Running
  /\ fpc[f] = "send"
  /\ Len(tilePipe) < Cap
  /\ tilePipe' = Append(tilePipe, ftile[f])
  /\ ftile' = [ftile EXCEPT ![f] = ZeroTile]
  /\ fpc' = [fpc EXCEPT ![f] = "recv"]
  /\ UNCHANGED <<enumVars, tiles, mpc, db, inputPipe, outputPipe, inject,
                 acks, fetched, writerVars, fatal>>

\* ----------------------------------------------------------- mbTileWorker
\* tile := <-tilePipe
WriterRecvInputPipe(w) ==
  /\ Running
  /\ wpc[w] = "recv"
  /\ Len(inputPipe) > 0
  /\ wtile' = [wtile EXCEPT ![w] = Head(inputPipe)]
  /\ inputPipe' = Tail(inputPipe)
  /\ wpc' = [wpc EXCEPT ![w] = "insert"]
  /\ UNCHANGED <<enumVars, tiles, mpc, db, tilePipe, outputPipe, inject, acks,
                 fetcherVars, fatal>>
WriterRecv(w) ==
  /\ Running
  /\ wpc[w] = "recv"
  /\ Len(tilePipe) > 0
  /\ wtile' = [wtile EXCEPT ![w] = Head(tilePipe)]
  /\ tilePipe' = Tail(tilePipe)
  /\ wpc' = [wpc EXCEPT ![w] = "insert"]
  /\ UNCHANGED <<enumVars, tiles, mpc, db, inputPipe, outputPipe, inject, acks,
                 fetcherVars, fatal>>

\* addToMBTile returns nil: the row is in the table
addToMBTile(w) ==
  /\ Running
  /\ wpc[w] = "insert"
  /\ Key(wtile[w]) \notin Keys(db.rows)
  /\ db' = [db EXCEPT !.rows = @ \cup {wtile[w]}]
  /\ wpc' = [wpc EXCEPT ![w] = "send"]
  /\ UNCHANGED <<enumVars, tiles, mpc, chanVars, inject, acks, fetcherVars,
                 wtile, fatal>>

\* addToMBTile returns an error, always so on a key that tile_index holds:
\* log.Fatal(err)
addToMBTileError(w) ==
  /\ Running
  /\ wpc[w] = "insert"
  /\ fatal' = IF Key(wtile[w]) \in Keys(db.rows) THEN "unique" ELSE "addToMBTile"
  /\ UNCHANGED <<enumVars, tiles, mpc, db, chanVars, inject, acks,
                 fetcherVars, writerVars>>

\* outputPipe <- tile
WriterSendTwice(w) ==
  /\ Running
  /\ wpc[w] = "send"
  /\ Len(outputPipe) + 1 < Cap
  /\ outputPipe' = Append(Append(outputPipe, wtile[w]), wtile[w])
  /\ wtile' = [wtile EXCEPT ![w] = ZeroTile]
  /\ wpc' = [wpc EXCEPT ![w] = "recv"]
  /\ UNCHANGED <<enumVars, tiles, mpc, db, inputPipe, tilePipe, inject, acks,
                 fetcherVars, fatal>>
WriterSend(w) ==
  /\ Running
  /\ wpc[w] = "send"
  /\ Len(outputPipe) < Cap
  /\ outputPipe' = Append(outputPipe, wtile[w])
  /\ wtile' = [wtile EXCEPT ![w] = ZeroTile]
  /\ wpc' = [wpc EXCEPT ![w] = "recv"]
  /\ UNCHANGED <<enumVars, tiles, mpc, db, inputPipe, tilePipe, inject, acks,
                 fetcherVars, fatal>>

\* --------------------------------------------------------- specifications
Enumerate == NewProjection \/ TileListLevel \/ TileListReturn

MainOk ==
  \/ prepareDatabase \/ setupMBTileTables
  \/ StartWorkers \/ Inject \/ InjectExit \/ WaitAck \/ WaitExit
  \/ optimizeDatabase

Main ==
  \/ MainOk
  \/ prepareDatabaseError \/ setupMBTileTablesError \/ optimizeDatabaseError

FetcherOk(f) == FetcherRecv(f) \/ fetchTile(f) \/ FetcherSend(f)

Fetcher(f) == FetcherOk(f) \/ fetchTileNotATile(f) \/ fetchTileFatal(f)

WriterOk(w) == WriterRecv(w) \/ addToMBTile(w) \/ WriterSend(w)

Writer(w) == WriterOk(w) \/ addToMBTileError(w)

NextEnum == Enumerate

NextRound == RoundCall

Next ==
  \/ Enumerate
  \/ Main
  \/ \E f \in Fetchers : Fetcher(f)
  \/ \E w \in Writers : Writer(w)

\* the steps of a run in which every fetch, every insert and every other
\* statement on the store succeeds
NextOk ==
  \/ Enumerate
  \/ MainOk
  \/ \E f \in Fetchers : FetcherOk(f)
  \/ \E w \in Writers : WriterOk(w)

\* the enumerator alone
SpecEnum == InitEnum /\ [][NextEnum]_vars

\* calls of Round
SpecRound == InitRound /\ [][NextRound]_vars

\* a run of main
Spec == Init /\ [][Next]_vars

\* a second run of main on the same filename
SpecTwice == InitTwice /\ [][Next]_vars

\* a run of main without a failure, under the Go scheduler: a goroutine that
\* can take a step is not left waiting forever
FairSpec ==
  /\ Init /\ [][NextOk]_vars
  /\ WF_vars(Enumerate \/ MainOk)
  /\ \A f \in Fetchers : WF_vars(FetcherOk(f))
  /\ \A w \in Writers : WF_vars(WriterOk(w))

\* ------------------------------------------------------------------ claims
Listed == mpc = "prepareDatabase"
N == Len(tiles)
PastAckLoop == mpc \in {"optimizeDatabase", "done"}
InFlight ==
  Range(tilePipe) \cup Range(outputPipe)
    \cup { wtile[w] : w \in { v \in Writers : wpc[v] \in {"insert", "send"} } }
Inserting == { w \in Writers : wpc[w] = "insert" }
Fetching == { f \in Fetchers : fpc[f] = "fetch" }
AcksSent == acks + Len(outputPipe)
\* the rows this run has inserted: the file of an earlier run is gone once
\* prepareDatabase has run
Inserted ==
  IF mpc \in {"NewProjection", "TileList", "prepareDatabase"} THEN {} ELSE db.rows

\* C1: the maintenance step does not start before main has received exactly
\* N acknowledgments from outputPipe
C1_MaintenanceAfterAllAcks == PastAckLoop => acks = N
C1_Witness == mpc = "optimizeDatabase" /\ N >= 2 /\ acks = N

\* C2: past the acknowledgment loop the store holds exactly one row for every
\* TileId of the list and no other row, and no key is ever handed to
\* insertTile a second time (the unique index would refuse it)
C2_ExactlyTheListStored ==
  /\ fatal # "unique"
  /\ PastAckLoop =>
       /\ Keys(db.rows) = Keys(Range(tiles))
       /\ Cardinality(db.rows) = N
C2_Witness ==
  /\ mpc = "optimizeDatabase" /\ fatal = "none" /\ N >= 2
  /\ \A r \in db.rows : r.Content = "png"

\* C3: a tile is inserted only after its fetch has returned and acknowledged
\* only after its insert has succeeded;
\* acks sent <= inserts completed <= fetches completed
C3_FetchThenInsertThenAck ==
  /\ \A w \in Writers : wpc[w] \in {"insert", "send"} => Key(wtile[w]) \in fetched
  /\ Keys(Inserted) \subseteq fetched
  /\ \A w \in Writers : wpc[w] = "send" => wtile[w] \in Inserted
  /\ Range(outputPipe) \subseteq Inserted
  /\ AcksSent <= Cardinality(Inserted)
  /\ Cardinality(Inserted) <= Cardinality(fetched)
C3_Witness ==
  /\ AcksSent = 1 /\ Cardinality(Inserted) = 2 /\ Cardinality(fetched) = 2
  /\ Len(outputPipe) = 1

\* C4: between the start of the workers and the last acknowledgment only the
\* writer works on the store, with at most one insert in progress; main works
\* on it only before the workers start and after the last acknowledgment
C4_SingleWriter ==
  /\ Cardinality(Inserting) <= 1
  /\ Inserting # {} => mpc \in {"inject", "wait"}
C4_Witness ==
  /\ Inserting # {} /\ Fetching # {} /\ mpc = "wait"

\* C5: under weak fairness a run in which nothing fails reaches the
\* maintenance step
C5_ReachesMaintenance == <>PastAckLoop
C5_Witness ==
  /\ mpc = "optimizeDatabase" /\ fatal = "none" /\ N >= 2
  /\ \A f \in Fetchers : fpc[f] = "recv"

\* C6: once the fetch of a tile has failed the process is halted: the tile is
\* not inserted, not acknowledged, and main does not reach the maintenance
\* step or return
FailedFetches ==
  { t \in InFlight \cup Inserted
      \cup { ftile[f] : f \in { g \in Fetchers : fpc[g] = "send" } } :
    t.Content = "other" }
C6_FetchFailureHalts ==
  FailedFetches # {} =>
    /\ fatal # "none"
    /\ ~PastAckLoop
    /\ \A t \in FailedFetches : t \notin Inserted /\ t \notin Range(outputPipe)

\* C7: a response that is not a success, or a transport error, is an error:
\* no Tile of that fetch reaches the writer or the store
C7_FetchErrorsSurfaced ==
  \A t \in InFlight \cup Inserted : t.Content = "png"

\* C8: every TileId of the list has 0 <= column < 2^z and 0 <= row < 2^z
C8_InsideGrid ==
  \A i \in 1..Len(tilelist) :
    /\ 0 <= tilelist[i].x /\ tilelist[i].x < 2^(tilelist[i].z)
    /\ 0 <= tilelist[i].y /\ tilelist[i].y < 2^(tilelist[i].z)

\* C9: the list returned by TileList has no two entries with the same
\* (zoom, column, row)
C9_NoDuplicates ==
  \A i, j \in 1..Len(tilelist) : Key(tilelist[i]) = Key(tilelist[j]) => i = j
C9_Witness ==
  /\ Listed
  /\ \E i, j \in 1..Len(tilelist) :
       /\ tilelist[i].z # tilelist[j].z
       /\ tilelist[i].x = 0 /\ tilelist[i].y = 0
  /\ Len(tilelist) >= 6

\* C10: the list is strictly ascending in (zoom, column, row)
KeyLess(a, b) ==
  \/ a.z < b.z
  \/ a.z = b.z /\ a.x < b.x
  \/ a.z = b.z /\ a.x = b.x /\ a.y < b.y
C10_Sorted ==
  \A i \in 1..(Len(tilelist) - 1) : KeyLess(tilelist[i], tilelist[i + 1])
C10_Witness ==
  /\ Listed
  /\ \E i \in 1..(Len(tilelist) - 2) :
       /\ tilelist[i].z = tilelist[i + 2].z
       /\ tilelist[i].x = tilelist[i + 1].x /\ tilelist[i].y < tilelist[i + 1].y
       /\ tilelist[i + 1].x < tilelist[i + 2].x /\ tilelist[i + 1].y > tilelist[i + 2].y
  /\ \E i \in 1..(Len(tilelist) - 1) : tilelist[i].z < tilelist[i + 1].z

\* C11: for a requested zoom z0 the enumerator handles exactly the levels
\* z0, z0 + 1, ..., MAX_ZOOM_LEVEL, each once and in ascending order, so
\* every zoom of the list lies in [z0, MAX_ZOOM_LEVEL]; for z0 above
\* MAX_ZOOM_LEVEL no level is handled and the list is empty
ZoomsOf(q) == { q[i].z : i \in 1..Len(q) }
C11_LevelsFromRequestedZoom ==
  mpc # "NewProjection" =>
    /\ Len(proj.levels) =
         (IF zoomlevel > MAX_ZOOM_LEVEL THEN 0 ELSE MAX_ZOOM_LEVEL - zoomlevel + 1)
    /\ \A k \in 1..Len(proj.levels) : proj.levels[k] = zoomlevel + k - 1
    /\ ZoomsOf(tilelist) \subseteq { proj.levels[k] : k \in 1..(li - 1) }
    /\ ZoomsOf(tilelist) \subseteq zoomlevel..MAX_ZOOM_LEVEL
    /\ li <= Len(proj.levels) + 1
    /\ zoomlevel > MAX_ZOOM_LEVEL => tilelist = <<>>
    /\ (Listed /\ zoomlevel <= MAX_ZOOM_LEVEL) => li = MAX_ZOOM_LEVEL - zoomlevel + 2
C11_Witness ==
  /\ Listed
  /\ zoomlevel = MAX_ZOOM_LEVEL - 2
  /\ ZoomsOf(tilelist) = (MAX_ZOOM_LEVEL - 2)..MAX_ZOOM_LEVEL

\* the levels TileList has handled so far, and what each contributed
Handled == IF mpc = "NewProjection" THEN {} ELSE { proj.levels[k] : k \in 1..(li - 1) }
Contribution(zoom) == SelectSeq(tilelist, LAMBDA t : t.z = zoom)

\* the tile whose footprint holds the unrounded pixel coordinate of a
\* longitude, and of a latitude (after the clamp of the sine)
FootprintColumn(x, zoom) ==
  Floor(Zc(zoom) * Den(zoom) + x, Den(zoom) * DEFAULT_TILE_SIZE)
FootprintRow(y, zoom) ==
  Floor(Zc(zoom) * Den(zoom) - minMax(y, -SIN_CLAMP, SIN_CLAMP),
        Den(zoom) * DEFAULT_TILE_SIZE)
InsideOneTile(zoom) ==
  /\ FootprintColumn(proj.xmin, zoom) = FootprintColumn(proj.xmax, zoom)
  /\ FootprintRow(proj.ymin, zoom) = FootprintRow(proj.ymax, zoom)
  /\ FootprintColumn(proj.xmin, zoom) \in 0..(2^zoom - 1)
  /\ FootprintRow(proj.ymin, zoom) \in 0..(2^zoom - 1)

\* C12: a box whose corners all project (unrounded) into the footprint of one
\* valid tile (c, r) at zoom z contributes exactly the TileId (z, c, r)
C12_OneTileInsideFootprint ==
  \A zoom \in Handled :
    InsideOneTile(zoom) =>
      Contribution(zoom) =
        << Tile(zoom, FootprintColumn(proj.xmin, zoom), FootprintRow(proj.ymin, zoom)) >>

\* C13: a level at which the projected column pixels, or the projected row
\* pixels, of both corners lie outside the grid (both negative, or both at or
\* beyond 256 * 2^z) contributes no tile
OutsideGrid(a, b, zoom) ==
  \/ a < 0 /\ b < 0
  \/ a >= Ac(zoom) /\ b >= Ac(zoom)
C13_NothingOutsideGrid ==
  \A zoom \in Handled :
    LET px0 == project_pixels(proj.xmin, proj.ymax, zoom)
        px1 == project_pixels(proj.xmax, proj.ymin, zoom)
    IN  (OutsideGrid(px0[1], px1[1], zoom) \/ OutsideGrid(px0[2], px1[2], zoom))
          => Contribution(zoom) = <<>>

C15_RoundHalfAway ==
  rounded # <<>> =>
    LET r == rounded[1]
        d == Abs(value - r * One)
    IN  /\ 2 * d <= One
        /\ 2 * d = One => Abs(r * One) > Abs(value)
        /\ RoundFloat(-value) = -r

\* the mathematical floor of v / DEFAULT_TILE_SIZE
FloorIndex(v) == Floor(v, DEFAULT_TILE_SIZE)

\* C16: xrangeStart, xrangeEnd, yrangeStart and yrangeEnd are the floor of
\* the rounded pixel coordinate divided by 256, negative coordinates included
C16_IndexIsFloor ==
  \A zoom \in Handled :
    LET px0 == project_pixels(proj.xmin, proj.ymax, zoom)
        px1 == project_pixels(proj.xmax, proj.ymin, zoom)
    IN  /\ TileIndex(px0[1]) = FloorIndex(px0[1])
        /\ TileIndex(px1[1]) = FloorIndex(px1[1])
        /\ TileIndex(px0[2]) = FloorIndex(px0[2])
        /\ TileIndex(px1[2]) = FloorIndex(px1[2])

\* the loop bounds of TileList at zoom, as the code computes them
xrangeStart(zoom) == TileIndex(project_pixels(proj.xmin, proj.ymax, zoom)[1])
xrangeEnd(zoom) == TileIndex(project_pixels(proj.xmax, proj.ymin, zoom)[1])
yrangeStart(zoom) == TileIndex(project_pixels(proj.xmin, proj.ymax, zoom)[2])
yrangeEnd(zoom) == TileIndex(project_pixels(proj.xmax, proj.ymin, zoom)[2])
Surviving(start, end, zoom) == { i \in start..end : i >= 0 /\ i <= 2^zoom }

\* C17: the TileIds of a zoom are the pairs of a column of
\* xrangeStart..xrangeEnd and a row of yrangeStart..yrangeEnd whose indices
\* are neither negative nor greater than 2^zoom; their number is the product
\* of the two counts, and none when a range is empty
C17_ClippedProduct ==
  Listed => \A zoom \in Handled :
    LET cols == Surviving(xrangeStart(zoom), xrangeEnd(zoom), zoom)
        rows == Surviving(yrangeStart(zoom), yrangeEnd(zoom), zoom)
        at == { k \in 1..Len(tilelist) : tilelist[k].z = zoom }
    IN  /\ { <<tilelist[k].x, tilelist[k].y>> : k \in at } = cols \X rows
        /\ Cardinality(at) = Cardinality(cols) * Cardinality(rows)
        /\ (xrangeStart(zoom) > xrangeEnd(zoom) \/ yrangeStart(zoom) > yrangeEnd(zoom))
             => at = {}
C17_Witness ==
  /\ Listed
  /\ \E k \in 1..Len(tilelist) : tilelist[k].x = 2^(tilelist[k].z)
  /\ \E zoom \in Handled :
       /\ Cardinality(Surviving(xrangeStart(zoom), xrangeEnd(zoom), zoom)) >= 2
       /\ Cardinality(Surviving(yrangeStart(zoom), yrangeEnd(zoom), zoom)) >= 2

\* the log.Fatal of mbTileWorker
InsertFatal == {"unique", "addToMBTile"}

\* C18: when addToMBTile fails for a tile, no row of the store changes, no
\* acknowledgment is sent for the tile, the process ends with that step, and
\* optimizeDatabase is never reached
C18_InsertErrorAborts ==
  [][ /\ fatal \in InsertFatal => FALSE
      /\ (fatal' \in InsertFatal) =>
           /\ db' = db
           /\ \E w \in Inserting :
                /\ wpc'[w] = "insert"
                /\ Key(wtile[w]) \notin Keys(Range(outputPipe'))
           /\ AcksSent' = AcksSent /\ AcksSent' < N
           /\ ~PastAckLoop' ]_vars
C18_Witness ==
  /\ fatal \in InsertFatal
  /\ N >= 2 /\ db.rows # {} /\ mpc = "wait"

\* the goroutines have been started
Started == mpc \in {"inject", "wait", "optimizeDatabase", "done"}

\* C19: no worker leaves its loop, and once main has received all N
\* acknowledgments every tileFetcher waits at its receive on the empty
\* inputPipe and the mbTileWorker at its receive on the empty tilePipe: no
\* worker is in a fetch or an insert when optimizeDatabase runs
C19_WorkersIdleAtMaintenance ==
  /\ Started =>
       /\ \A f \in Fetchers : fpc[f] \in {"recv", "fetch", "send"}
       /\ \A w \in Writers : wpc[w] \in {"recv", "insert", "send"}
  /\ PastAckLoop =>
       /\ \A f \in Fetchers : fpc[f] = "recv"
       /\ inputPipe = <<>>
       /\ \A w \in Writers : wpc[w] = "recv"
       /\ tilePipe = <<>>
       /\ Fetching = {} /\ Inserting = {}
C19_Witness ==
  /\ mpc = "done" /\ fatal = "none" /\ N >= 2
  /\ Cardinality(fetched) = N
  /\ \A f \in Fetchers : fpc[f] = "recv"
  /\ \A w \in Writers : wpc[w] = "recv"

\* where the tiles of the list are
NotInjected == inject..N
HoldingFetchers == { f \in Fetchers : fpc[f] \in {"fetch", "send"} }
HoldingWriters == { w \in Writers : wpc[w] \in {"insert", "send"} }
KeysInPipeline ==
  { Key(tiles[k]) : k \in NotInjected }
    \cup Keys(Range(inputPipe))
    \cup { Key(ftile[f]) : f \in HoldingFetchers }
    \cup Keys(Range(tilePipe))
    \cup { Key(wtile[w]) : w \in HoldingWriters }
    \cup Keys(Range(outputPipe))

\* C20: every TileId of the list is in exactly one place: not yet injected,
\* in inputPipe, with one tileFetcher, in tilePipe, with the mbTileWorker, in
\* outputPipe, or received by main.  The places hold N tiles together, no
\* channel holds more than N, and no send finds its channel full.
\* (The places outside main's count hold N - acks items; that they hold as
\* many distinct TileIds of the list says that no TileId is in two places
\* and none is foreign to the list.)
C20_Conservation ==
  Started =>
    /\ Cardinality(NotInjected) + Len(inputPipe) + Cardinality(HoldingFetchers)
         + Len(tilePipe) + Cardinality(HoldingWriters) + Len(outputPipe) + acks = N
    /\ Cardinality(KeysInPipeline \cap Keys(Range(tiles))) = N - acks
    /\ Len(inputPipe) <= N /\ Len(tilePipe) <= N /\ Len(outputPipe) <= N
    /\ (mpc = "inject" /\ inject <= N) => Len(inputPipe) < Cap
    /\ \A f \in Fetchers : fpc[f] = "send" => Len(tilePipe) < Cap
    /\ \A w \in Writers : wpc[w] = "send" => Len(outputPipe) < Cap
C20_Witness ==
  /\ N >= 2 /\ fatal = "none"
  /\ \E f \in Fetchers : fpc[f] = "send"
  /\ \E w \in Writers : wpc[w] = "send"

====
